---- MODULE Spec2Model ----
(***************************************************************************)
(* Model of sharpy.rom.reducedordermodel.ReducedOrderModel: the driver     *)
(* (__init__, initialise, run) and the Krylov reducers it dispatches to    *)
(* (one_sided_arnoldi, two_sided_arnoldi, dual_rational_arnoldi_siso,      *)
(* real_rational_arnoldi, construct_krylov).                               *)
(*                                                                         *)
(* Arithmetic is exact.  A floating point value is modelled as either a    *)
(* non-finite value (NaN; an infinity is folded into it, every infinity    *)
(* the code produces is multiplied by zero or divided by an infinity in    *)
(* the same statement) or a real number of the form (num/den)*sqrt(rad)    *)
(* with rad squarefree.  The Arnoldi iteration on integer data stays       *)
(* inside that set: every column of a basis is a rational vector times one *)
(* square root.  Imaginary parts are zero throughout (real interpolation   *)
(* points) and are not represented.                                        *)
(***************************************************************************)
EXTENDS Integers, Sequences, FiniteSets, TLC

(***************************************************************************)
(* Numbers                                                                 *)
(***************************************************************************)
Abs(x) == IF x < 0 THEN -x ELSE x

RECURSIVE GCD(_, _)
GCD(a, b) == IF b = 0 THEN a ELSE GCD(b, a % b)

\* the largest k with k*k dividing m, by trial division from k upwards
RECURSIVE SqPart(_, _)
SqPart(m, k) ==
    IF k * k > m THEN 1
    ELSE IF m % (k * k) = 0 THEN k * SqPart(m \div (k * k), k)
    ELSE SqPart(m, k + 1)

NaN == [nan |-> TRUE, num |-> 0, den |-> 1, rad |-> 1]

Zero == [nan |-> FALSE, num |-> 0, den |-> 1, rad |-> 1]

\* the canonical form of (n/d)*sqrt(s), d > 0, s > 0
Mk(n, d, s) ==
    IF n = 0 THEN Zero
    ELSE LET k  == SqPart(s, 2)
             nn == n * k
             g  == GCD(Abs(nn), d)
         IN  [nan |-> FALSE, num |-> nn \div g, den |-> d \div g,
              rad |-> s \div (k * k)]

Fin(x) == Mk(x, 1, 1)

One == Fin(1)

IsNaN(a) == a.nan

\* common factors are cancelled before the products are formed, which
\* keeps the intermediate integers small
Mul(a, b) ==
    IF a.nan \/ b.nan THEN NaN
    ELSE IF a.num = 0 \/ b.num = 0 THEN Zero
    ELSE LET g1 == GCD(Abs(a.num), b.den)
             g2 == GCD(Abs(b.num), a.den)
             g  == GCD(a.rad, b.rad)
         IN  Mk((a.num \div g1) * (b.num \div g2) * g,
                (a.den \div g2) * (b.den \div g1),
                (a.rad \div g) * (b.rad \div g))

\* a sum of two nonzero numbers is representable when they carry the same
\* square root; no other sum arises (the CASE has no OTHER arm on purpose)
Add(a, b) ==
    CASE a.nan \/ b.nan -> NaN
      [] ~(a.nan \/ b.nan) /\ a.num = 0 -> b
      [] ~(a.nan \/ b.nan) /\ a.num # 0 /\ b.num = 0 -> a
      [] ~(a.nan \/ b.nan) /\ a.num # 0 /\ b.num # 0 /\ a.rad = b.rad ->
            LET g == GCD(a.den, b.den)
            IN  Mk(a.num * (b.den \div g) + b.num * (a.den \div g),
                   (a.den \div g) * b.den, a.rad)

Neg(a) ==
    IF a.nan THEN NaN
    ELSE [nan |-> FALSE, num |-> -a.num, den |-> a.den, rad |-> a.rad]

Sub(a, b) == Add(a, Neg(b))

\* 1/a; 1/0 is an infinity (a RuntimeWarning, not an exception)
Recip(a) ==
    IF a.nan \/ a.num = 0 THEN NaN
    ELSE Mk((IF a.num < 0 THEN -1 ELSE 1) * a.den, Abs(a.num) * a.rad, a.rad)

Div(a, b) == Mul(a, Recip(b))

\* the square root of a rational a >= 0
Sqrt(a) ==
    CASE a.nan -> NaN
      [] ~a.nan /\ a.num = 0 -> Zero
      [] ~a.nan /\ a.rad = 1 /\ a.num > 0 -> Mk(1, a.den, a.num * a.den)

(***************************************************************************)
(* Vectors (sequences of numbers) and matrices (sequences of rows)         *)
(***************************************************************************)
\* the sequence <<f[1], ..., f[n]>> of a function f on 1..n, as an explicit
\* tuple (its elements are evaluated once, here)
Tup(f) == f \o << >>

RECURSIVE SumSeq(_)
SumSeq(s) == IF s = <<>> THEN Zero ELSE Add(Head(s), SumSeq(Tail(s)))

VecHasNaN(v) == \E i \in 1..Len(v) : v[i].nan

MatHasNaN(M) == \E i \in 1..Len(M) : VecHasNaN(M[i])

Dot(u, v) == SumSeq(Tup([i \in 1..Len(u) |-> Mul(u[i], v[i])]))

VecScale(c, v) == Tup([i \in 1..Len(v) |-> Mul(c, v[i])])

VecSub(u, v) == Tup([i \in 1..Len(u) |-> Sub(u[i], v[i])])

MatVec(M, v) == Tup([i \in 1..Len(M) |-> Dot(M[i], v)])

NRows(M) == Len(M)

NCols(M) == IF Len(M) = 0 THEN 0 ELSE Len(M[1])

Col(M, j) == Tup([i \in 1..Len(M) |-> M[i][j]])

Transpose(M) == Tup([j \in 1..NCols(M) |-> Col(M, j)])

MatMul(X, Y) ==
    LET Yt == Transpose(Y)
    IN  Tup([i \in 1..Len(X) |->
            Tup([j \in 1..Len(Yt) |-> Dot(X[i], Yt[j])])])

\* the first k columns of M
Cols(M, k) == Tup([i \in 1..Len(M) |-> SubSeq(M[i], 1, k)])

\* M with column j set to v
SetCol(M, j, v) ==
    Tup([i \in 1..Len(M) |->
        Tup([k \in 1..Len(M[i]) |-> IF k = j THEN v[i] ELSE M[i][k]])])

Zeros(n, m) == Tup([i \in 1..n |-> Tup([j \in 1..m |-> Zero])])

Eye(n) ==
    Tup([i \in 1..n |-> Tup([j \in 1..n |-> IF i = j THEN One ELSE Zero])])

\* M with row i and column j removed
Minor(M, i, j) ==
    LET n == Len(M)
    IN  Tup([p \in 1..(n - 1) |->
            Tup([q \in 1..(n - 1) |->
                M[IF p < i THEN p ELSE p + 1][IF q < j THEN q ELSE q + 1]])])

RECURSIVE Det(_)
Det(M) ==
    IF Len(M) = 0 THEN One
    ELSE IF Len(M) = 1 THEN M[1][1]
    ELSE SumSeq(Tup([j \in 1..Len(M) |->
            Mul(IF j % 2 = 1 THEN M[1][j] ELSE Neg(M[1][j]),
                Det(Minor(M, 1, j)))]))

\* np.linalg.norm of a vector
Norm(v) == Sqrt(Dot(v, v))

(***************************************************************************)
(* scipy.linalg as the reducers use it.  Every call keeps the default      *)
(* check_finite=True: an argument holding a NaN or an infinity raises      *)
(* ValueError.  A call's instrumentation is a sequence of events           *)
(* [op, side, trans, pt, lo, hi]: pt is the 0-based index of the           *)
(* interpolation point the enclosing reducer is working on; lo and hi are  *)
(* the column range [lo, hi) of a "store" into a basis.                    *)
(***************************************************************************)
Ev(op, side, trans) ==
    [op |-> op, side |-> side, trans |-> trans, pt |-> 0, lo |-> 0, hi |-> 0]

\* sclalg.lu_solve(lu_A, b, trans) for finite b: the solution of lu_A x = b
\* (trans = 0) or lu_A^T x = b (trans = 1).  lu_factor of a singular matrix
\* only warns; the back substitution then divides by the zero pivot and the
\* result is not finite.
lu_solve(lu_A, b, trans) ==
    LET M == IF trans = 1 THEN Transpose(lu_A) ELSE lu_A
        d == Det(M)
    IN  IF d.num = 0 THEN Tup([i \in 1..Len(b) |-> NaN])
        ELSE Tup([i \in 1..Len(b) |-> Div(Det(SetCol(M, i, b)), d)])

\* sclalg.inv(M) for finite, non-singular M
inv(M) ==
    LET n == Len(M)
        d == Det(M)
    IN  Tup([i \in 1..n |-> Tup([j \in 1..n |->
            Div(IF (i + j) % 2 = 0 THEN Det(Minor(M, j, i))
                ELSE Neg(Det(Minor(M, j, i))), d)])])

(***************************************************************************)
(* construct_krylov(r, lu_A, B, approx_type, side): the result is          *)
(* [exc, V, trace]; exc = "" when the call returns V.  B is a vector of    *)
(* length nx (on side 'c' the code reshapes C.T to that).  The local H,    *)
(* which is written and never read for V, is left out.                     *)
(***************************************************************************)
\* lines 205-209
transpose_mode(side) == IF side = "c" THEN 1 ELSE 0

\* approx_type != 'partial_realisation' (lines 221, 251)
pade(approx_type) == approx_type # "partial_realisation"

\* v / np.linalg.norm(v) (lines 225, 232) and 1 / beta * f[:, j] (lines
\* 244-245): a zero norm gives NaN in every entry, and no exception
normalised(x) == VecScale(Recip(Norm(x)), x)

\* the operator applied to v: sclalg.lu_solve(lu_A, v, trans) (lines 227,
\* 252) or A.dot(v) (lines 233, 254)
apply_op(lu_A, v, approx_type, trans) ==
    IF pade(approx_type) THEN lu_solve(lu_A, v, trans) ELSE MatVec(lu_A, v)

op_event(approx_type, side, trans) ==
    IF pade(approx_type) THEN Ev("lu_solve", side, trans)
    ELSE Ev("dot", side, 0)

\* w - V[:, :j+2].dot(V[:, :j+2].T.dot(w)) (lines 256-257 and 260-261)
residual(Vs, w) == VecSub(w, MatVec(Vs, MatVec(Transpose(Vs), w)))

\* the loop of lines 242-265 from the 0-based index j on; krylov_step is
\* one pass of its body, v being the normalised f[:, j]
RECURSIVE krylov_loop(_, _, _, _, _, _, _, _)
RECURSIVE krylov_step(_, _, _, _, _, _, _, _, _)
krylov_step(j, r, lu_A, approx_type, side, V, f, trace, v) ==
    IF pade(approx_type) /\ VecHasNaN(v)
    THEN [exc |-> "ValueError", V |-> SetCol(V, j + 2, v), trace |-> trace]
    ELSE krylov_loop(j + 1, r, lu_A, approx_type, side, SetCol(V, j + 2, v),
            SetCol(f, j + 2,
                residual(Cols(SetCol(V, j + 2, v), j + 2),
                    residual(Cols(SetCol(V, j + 2, v), j + 2),
                        apply_op(lu_A, v, approx_type,
                                 transpose_mode(side))))),
            Append(trace, op_event(approx_type, side, transpose_mode(side))))

krylov_loop(j, r, lu_A, approx_type, side, V, f, trace) ==
    IF j >= r - 1 THEN [exc |-> "", V |-> V, trace |-> trace]
    ELSE krylov_step(j, r, lu_A, approx_type, side, V, f, trace,
                     normalised(Col(f, j + 1)))

\* the events of lines 223-227 or 233
start_events(approx_type, side) ==
    IF pade(approx_type)
    THEN << Ev("lu_factor", side, 0),
            Ev("lu_solve", side, transpose_mode(side)),
            Ev("lu_solve", side, 0) >>
    ELSE << Ev("dot", side, 0) >>

\* w - v.dot(alpha) with alpha = v.T.dot(w) (lines 235-238)
first_residual(v, w) == VecSub(w, VecScale(Dot(v, w), v))

\* lines 227-240, v being the normalised starting vector.  The solve of
\* line 227 passes no trans.
krylov_start(r, lu_A, approx_type, side, nx, v) ==
    IF pade(approx_type) /\ VecHasNaN(v)
    THEN [exc |-> "ValueError", V |-> Zeros(nx, r),
          trace |-> SubSeq(start_events(approx_type, side), 1, 2)]
    ELSE IF r = 0
    THEN [exc |-> "IndexError", V |-> Zeros(nx, r),
          trace |-> start_events(approx_type, side)]
    ELSE krylov_loop(0, r, lu_A, approx_type, side,
            SetCol(Zeros(nx, r), 1, v),
            SetCol(Zeros(nx, r), 1,
                   first_residual(v, apply_op(lu_A, v, approx_type, 0))),
            start_events(approx_type, side))

construct_krylov(r, lu_A, B, approx_type, side) ==
    krylov_start(r, lu_A, approx_type, side, Len(B),
        normalised(IF pade(approx_type)
                   THEN lu_solve(lu_A, B, transpose_mode(side)) ELSE B))

(***************************************************************************)
(* Python values.  None is a record, and so is every value a field that    *)
(* may hold None can hold: a number, a state-space object, an ndarray      *)
(* (wrapped as [array |-> M]), a frequency argument.  A frequency argument *)
(* is [kind, pts]: kind "scalar" is a Python number, "inf" is np.inf,      *)
(* "ndarray" a 1-D numpy array (it has .shape), "list" a Python list (it   *)
(* has none).                                                              *)
(***************************************************************************)
None == [none |-> TRUE]

ndarray(M) == [array |-> M]

Scalar(x) == [kind |-> "scalar", pts |-> << Fin(x) >>]

Inf == [kind |-> "inf", pts |-> << >>]

NdArray(xs) == [kind |-> "ndarray", pts |-> Tup([i \in 1..Len(xs) |-> Fin(xs[i])])]

List(xs) == [kind |-> "list", pts |-> Tup([i \in 1..Len(xs) |-> Fin(xs[i])])]

\* libss.ss(A, B, C, D, dt): the state-space object
libss_ss(A, B, C, D, dt) == [A |-> A, B |-> B, C |-> C, D |-> D, dt |-> dt]

\* what a reducer call comes to: exc = "" and the reduced matrices, or the
\* exception it raises.  V and W are the bases the matrices were projected
\* with; stores says whether the call assigned them to self.V and self.W.
Raise(exc, trace) ==
    [exc |-> exc, Ar |-> << >>, Br |-> << >>, Cr |-> << >>, V |-> << >>,
     W |-> << >>, stores |-> FALSE, trace |-> trace]

Return(Ar, Br, Cr, V, W, stores, trace) ==
    [exc |-> "", Ar |-> Ar, Br |-> Br, Cr |-> Cr, V |-> V, W |-> W,
     stores |-> stores, trace |-> trace]

\* frequency != np.inf and frequency is not None (lines 109, 129): "Pade",
\* "partial_realisation", or the ValueError of the truth value of an array
\* of more than one element
approx_of(frequency) ==
    IF frequency = None \/ frequency.kind = "inf" THEN "partial_realisation"
    ELSE IF frequency.kind = "ndarray" /\ Len(frequency.pts) > 1
         THEN "ValueError"
    ELSE "Pade"

\* can frequency * np.eye(nx) be broadcast?  A scalar and a one-element
\* sequence always; a Python list of nx elements too
broadcasts(frequency, nx) ==
    Len(frequency.pts) = 1 \/ Len(frequency.pts) = nx

\* frequency * np.eye(nx) - A (lines 110, 130): entry (i, j) of the product
\* is frequency[j] * eye[i, j]
shifted(frequency, A) ==
    LET nx == Len(A)
        sig(j) == IF Len(frequency.pts) = 1 THEN frequency.pts[1]
                  ELSE frequency.pts[j]
    IN  Tup([i \in 1..nx |-> Tup([j \in 1..nx |->
            Sub(IF i = j THEN sig(j) ELSE Zero, A[i][j])])])

(***************************************************************************)
(* The reducers.  ss is self.ss.                                           *)
(***************************************************************************)
\* the matrix handed to construct_krylov (lines 110-113, 130-135)
operator(A, frequency) ==
    IF approx_of(frequency) = "Pade" THEN shifted(frequency, A) ELSE A

\* the exception of lines 103-110 (126-130), "" when there is none
setup_exc(ss, frequency) ==
    IF ss = None THEN "AttributeError"
    ELSE IF approx_of(frequency) = "ValueError" THEN "ValueError"
    ELSE IF approx_of(frequency) = "Pade" /\ ~broadcasts(frequency, Len(ss.A))
    THEN "ValueError"
    ELSE ""

\* Ar = W.T.dot(A.dot(V)), Br = W.T.dot(B), Cr = C.dot(V) (lines 143-145,
\* 432-434; lines 116-118 with W = V)
project(ss, V, W) ==
    [Ar |-> MatMul(Transpose(W), MatMul(ss.A, V)),
     Br |-> MatVec(Transpose(W), ss.B),
     Cr |-> MatVec(Transpose(V), ss.C)]

Projected(p, V, W, stores, trace) ==
    Return(p.Ar, p.Br, p.Cr, V, W, stores, trace)

\* lines 116-120, k being what construct_krylov came to
one_sided_project(ss, k) ==
    IF k.exc # "" THEN Raise(k.exc, k.trace)
    ELSE Projected(project(ss, k.V, k.V), k.V, << >>, FALSE, k.trace)

one_sided_arnoldi(ss, frequency, r) ==
    IF setup_exc(ss, frequency) # ""
    THEN Raise(setup_exc(ss, frequency), << >>)
    ELSE one_sided_project(ss,
            construct_krylov(r, operator(ss.A, frequency), ss.B,
                             approx_of(frequency), "b"))

\* a faulty oblique, for testing the properties: W is left uncorrected
oblique_skipped(V, W) == W

\* W.dot(sclalg.inv(W.T.dot(V)).T) (lines 140, 427), given that the inverse
\* exists
oblique(V, W) == MatMul(W, Transpose(inv(MatMul(Transpose(W), V))))

\* the exception of sclalg.inv(WtV), "" when it returns
inv_exc(WtV) ==
    IF MatHasNaN(WtV) THEN "ValueError"
    ELSE IF Det(WtV).num = 0 THEN "LinAlgError"
    ELSE ""

\* lines 140-147 (427-436), V and W being the two bases built
oblique_project(ss, V, W, stores, trace) ==
    IF inv_exc(MatMul(Transpose(W), V)) # ""
    THEN Raise(inv_exc(MatMul(Transpose(W), V)), trace)
    ELSE Projected(project(ss, V, oblique(V, W)), V, oblique(V, W), stores,
                   trace)

\* lines 132/135 on, kV being what the input-side construct_krylov came to
two_sided_W(ss, kV, kW) ==
    IF kW.exc # "" THEN Raise(kW.exc, kV.trace \o kW.trace)
    ELSE oblique_project(ss, kV.V, kW.V, FALSE, kV.trace \o kW.trace)

two_sided_V(ss, frequency, r, kV) ==
    IF kV.exc # "" THEN Raise(kV.exc, kV.trace)
    ELSE two_sided_W(ss, kV,
            construct_krylov(r, operator(ss.A, frequency), ss.C,
                             approx_of(frequency), "c"))

two_sided_arnoldi(ss, frequency, r) ==
    IF setup_exc(ss, frequency) # ""
    THEN Raise(setup_exc(ss, frequency), << >>)
    ELSE two_sided_V(ss, frequency, r,
            construct_krylov(r, operator(ss.A, frequency), ss.B,
                             approx_of(frequency), "b"))

real_rational_arnoldi(ss, frequency, r) == Raise("NotImplementedError", << >>)

\* the events of one construct_krylov call, tagged with the point's index
AtPoint(trace, i) ==
    Tup([k \in 1..Len(trace) |->
        [op |-> trace[k].op, side |-> trace[k].side, trans |-> trace[k].trans,
         pt |-> i, lo |-> trace[k].lo, hi |-> trace[k].hi]])

Store(side, i, lo, hi) ==
    [op |-> "store", side |-> side, trans |-> 0, pt |-> i, lo |-> lo, hi |-> hi]

\* M[:, we:we+r] = block: the 0-based columns we .. we+r-1 of M
SetCols(M, we, r, block) ==
    Tup([i \in 1..Len(M) |->
        Tup([k \in 1..Len(M[i]) |->
            IF we < k /\ k <= we + r THEN block[i][k - we] ELSE M[i][k]])])

\* try: nfreq = frequency.shape[0] except AttributeError: nfreq = 1
\* (lines 408-411); only a numpy array has a shape
nfreq_of(frequency) ==
    IF frequency # None /\ frequency.kind = "ndarray"
    THEN Len(frequency.pts) ELSE 1

\* sigma * np.eye(nx) - A for sigma = frequency[i] (lines 420-421)
lu_A_at(ss, frequency, i) ==
    shifted([kind |-> "scalar", pts |-> << frequency.pts[i + 1] >>], ss.A)

\* the loop of lines 419-425 from the 0-based index i on; dual_V is its
\* pass from line 422 on and dual_W its pass from line 423 on, kV and kW
\* being what the construct_krylov calls came to
RECURSIVE dual_loop(_, _, _, _, _, _, _, _, _)
RECURSIVE dual_V(_, _, _, _, _, _, _, _, _, _)
RECURSIVE dual_W(_, _, _, _, _, _, _, _, _, _)
dual_W(i, nfreq, ss, frequency, r, V, W, we, trace, kW) ==
    IF kW.exc # ""
    THEN [exc |-> kW.exc, V |-> V, W |-> W,
          trace |-> trace \o AtPoint(kW.trace, i)]
    ELSE dual_loop(i + 1, nfreq, ss, frequency, r, V,
                   SetCols(W, we, r, kW.V), we + r,
                   Append(trace \o AtPoint(kW.trace, i),
                          Store("c", i, we, we + r)))

dual_V(i, nfreq, ss, frequency, r, V, W, we, trace, kV) ==
    IF kV.exc # ""
    THEN [exc |-> kV.exc, V |-> V, W |-> W,
          trace |-> trace \o AtPoint(kV.trace, i)]
    ELSE dual_W(i, nfreq, ss, frequency, r, SetCols(V, we, r, kV.V), W, we,
                Append(trace \o AtPoint(kV.trace, i),
                       Store("b", i, we, we + r)),
                construct_krylov(r, lu_A_at(ss, frequency, i), ss.C,
                                 "Pade", "c"))

dual_loop(i, nfreq, ss, frequency, r, V, W, we, trace) ==
    IF i >= nfreq THEN [exc |-> "", V |-> V, W |-> W, trace |-> trace]
    ELSE dual_V(i, nfreq, ss, frequency, r, V, W, we, trace,
                construct_krylov(r, lu_A_at(ss, frequency, i), ss.B,
                                 "Pade", "b"))

\* lines 427-436, l being what the loop came to
dual_project(ss, l) ==
    IF l.exc # "" THEN Raise(l.exc, l.trace)
    ELSE oblique_project(ss, l.V, l.W, TRUE, l.trace)

dual_rational_arnoldi_siso(ss, frequency, r) ==
    IF ss = None THEN Raise("AttributeError", << >>)
    ELSE IF ~(nfreq_of(frequency) > 1) THEN Raise("AssertionError", << >>)
    ELSE dual_project(ss,
            dual_loop(0, nfreq_of(frequency), ss, frequency, r,
                      Zeros(Len(ss.A), r * nfreq_of(frequency)),
                      Zeros(Len(ss.A), r * nfreq_of(frequency)),
                      0, << >>))

(***************************************************************************)
(* The inputs the model draws from                                         *)
(***************************************************************************)
\* the largest order r a call asks for
MaxR == 3

Mat(rows) ==
    Tup([i \in 1..Len(rows) |->
        Tup([j \in 1..Len(rows[i]) |-> Fin(rows[i][j])])])

Vec(xs) == Tup([i \in 1..Len(xs) |-> Fin(xs[i])])

\* a continuous-time system with two states; 1 and 2 are no poles of it
SysA ==
    libss_ss(Mat(<< <<0, 1>>, <<-2, -3>> >>), Vec(<<0, 1>>), Vec(<<1, 0>>),
             Fin(0), None)

\* a discrete-time system whose B is an eigenvector of A (the Krylov space
\* of B has dimension 1) and of which 2 is a pole
SysB ==
    libss_ss(Mat(<< <<2, 0>>, <<1, 3>> >>), Vec(<<0, 1>>), Vec(<<1, 1>>),
             Fin(1), Fin(1))

\* a system whose B is zero
SysC ==
    libss_ss(Mat(<< <<1, 2>>, <<3, 4>> >>), Vec(<<0, 0>>), Vec(<<1, 0>>),
             Fin(2), None)

SystemSeq == << SysA, SysB, SysC >>

Systems == {SystemSeq[i] : i \in 1..Len(SystemSeq)}

AlgNames ==
    {"arnoldi", "one_sided_arnoldi", "two_sided_arnoldi",
     "dual_rational_arnoldi", "real_rational_arnoldi"}

Frequencies ==
    {None, Inf, Scalar(1), NdArray(<<1>>), NdArray(<<1, 2>>),
     NdArray(<<1, 1>>), List(<<1, 2>>)}

Orders == 0..MaxR

(***************************************************************************)
(* The driver                                                              *)
(***************************************************************************)
\* a faulty reducer_of, for testing the properties: a name run does not
\* know falls back to the one-sided reducer
reducer_of_fallback(algorithm) ==
    IF algorithm = "two_sided_arnoldi" THEN "two_sided_arnoldi"
    ELSE IF algorithm = "dual_rational_arnoldi"
         THEN "dual_rational_arnoldi_siso"
    ELSE IF algorithm = "real_rational_arnoldi" THEN "real_rational_arnoldi"
    ELSE "one_sided_arnoldi"

\* the method run calls for an algorithm name (lines 49-59), "" for a name
\* that reaches the else of line 61
reducer_of(algorithm) ==
    IF algorithm = "arnoldi" THEN "one_sided_arnoldi"
    ELSE IF algorithm = "two_sided_arnoldi" THEN "two_sided_arnoldi"
    ELSE IF algorithm = "dual_rational_arnoldi"
         THEN "dual_rational_arnoldi_siso"
    ELSE IF algorithm = "real_rational_arnoldi" THEN "real_rational_arnoldi"
    ELSE ""

\* the call of that method on self.ss, or the raise of lines 62-63
invoke(reducer, ss, frequency, r) ==
    IF reducer = "one_sided_arnoldi" THEN one_sided_arnoldi(ss, frequency, r)
    ELSE IF reducer = "two_sided_arnoldi"
         THEN two_sided_arnoldi(ss, frequency, r)
    ELSE IF reducer = "dual_rational_arnoldi_siso"
         THEN dual_rational_arnoldi_siso(ss, frequency, r)
    ELSE IF reducer = "real_rational_arnoldi"
         THEN real_rational_arnoldi(ss, frequency, r)
    ELSE Raise("NotImplementedError", << >>)

\* lines 49-63 of run
dispatch(ss, algorithm, frequency, r) ==
    invoke(reducer_of(algorithm), ss, frequency, r)

\* dispatch on the model's inputs, evaluated once
Dispatched ==
    [i \in 0..Len(SystemSeq), a \in AlgNames, f \in Frequencies,
     k \in Orders |->
        dispatch(IF i = 0 THEN None ELSE SystemSeq[i], a, f, k)] @@ << >>

\* the place of ss in SystemSeq, 0 for None
IndexOf(ss) ==
    IF ss = None THEN 0
    ELSE CHOOSE i \in 1..Len(SystemSeq) : SystemSeq[i] = ss

Lookup(ss, algorithm, frequency, r) ==
    Dispatched[IndexOf(ss), algorithm, frequency, r]

\* __init__: the fields of a new driver.  A field that holds None or a
\* string holds the string "None" for None.
new ==
    [frequency |-> None, algorithm |-> "None", ss |-> None, r |-> 100,
     V |-> None, H |-> None, W |-> None, ssrom |-> None, data |-> None,
     sstype |-> "None"]

\* initialise(data, ss): the driver after the call
do_initialise(obj, d, s) ==
    [frequency |-> obj.frequency, algorithm |-> obj.algorithm, ss |-> s,
     r |-> obj.r, V |-> obj.V, H |-> obj.H, W |-> obj.W,
     ssrom |-> obj.ssrom, data |-> d,
     sstype |-> IF s.dt = None THEN "ct" ELSE "dt"]

\* the outcome of run: the driver after the call (self) with ssrom as
\* given, the exception the call raised (exc, "" when it returned), the
\* call's events (trace), the method it called (reducer) and the bases that
\* method projected with (V, W).  The reducer's assignments to self.V and
\* self.W (lines 428-429) are made when it returns.
after_run(obj, a, k, f, res, ssrom) ==
    [self |->
        [frequency |-> f, algorithm |-> a, ss |-> obj.ss, r |-> k,
         V |-> IF res.exc = "" /\ res.stores THEN ndarray(res.V) ELSE obj.V,
         H |-> obj.H,
         W |-> IF res.exc = "" /\ res.stores THEN ndarray(res.W) ELSE obj.W,
         ssrom |-> ssrom, data |-> obj.data, sstype |-> obj.sstype],
     exc |-> res.exc, trace |-> res.trace, reducer |-> reducer_of(a),
     V |-> res.V, W |-> res.W]

\* faulty variants of ran, for testing the properties: one stores a model
\* of what the failed reducer left, one clears the stored model when the
\* call fails, one drops the sample interval, one answers from the stored
\* model when the algorithm name is the one of the last call
ran_partial(obj, a, k, f, res) ==
    after_run(obj, a, k, f, res,
              libss_ss(res.Ar, res.Br, res.Cr, Zero, None))

ran_clears(obj, a, k, f, res) ==
    after_run(obj, a, k, f, res,
              IF res.exc = ""
              THEN libss_ss(res.Ar, res.Br, res.Cr, obj.ss.D, obj.ss.dt)
              ELSE None)

ran_drops_dt(obj, a, k, f, res) ==
    after_run(obj, a, k, f, res,
              IF res.exc = ""
              THEN libss_ss(res.Ar, res.Br, res.Cr, obj.ss.D, None)
              ELSE obj.ssrom)

ran_cached(obj, a, k, f, res) ==
    after_run(obj, a, k, f, res,
              IF res.exc = "" /\ (obj.algorithm # a \/ obj.ssrom = None)
              THEN libss_ss(res.Ar, res.Br, res.Cr, obj.ss.D, obj.ss.dt)
              ELSE obj.ssrom)

\* lines 45-65 of run, res being what the dispatch of lines 49-63 came to:
\* line 65 is reached, and self.ssrom assigned, when no exception was raised
ran(obj, a, k, f, res) ==
    after_run(obj, a, k, f, res,
              IF res.exc = ""
              THEN libss_ss(res.Ar, res.Br, res.Cr, obj.ss.D, obj.ss.dt)
              ELSE obj.ssrom)

\* run(algorithm, r, frequency)
do_run(obj, a, k, f) == ran(obj, a, k, f, Lookup(obj.ss, a, f, k))

\* self is the driver object.  The other variables describe the last call:
\* called is the method, raised the exception it raised ("" when it
\* returned), events its events, invoked the reducer it called ("" for
\* none), built the bases [V, W] that reducer projected with.
VARIABLES self, called, raised, events, invoked, built

vars == << self, called, raised, events, invoked, built >>

NoBases == [V |-> << >>, W |-> << >>]

Init ==
    /\ self = new
    /\ called = "__init__"
    /\ raised = ""
    /\ events = << >>
    /\ invoked = ""
    /\ built = NoBases

initialise(d, s) ==
    /\ self' = do_initialise(self, d, s)
    /\ called' = "initialise"
    /\ raised' = ""
    /\ events' = << >>
    /\ invoked' = ""
    /\ built' = NoBases

run(a, k, f) ==
    \E res \in {do_run(self, a, k, f)} :
        /\ self' = res.self
        /\ called' = "run"
        /\ raised' = res.exc
        /\ events' = res.trace
        /\ invoked' = res.reducer
        /\ built' = [V |-> res.V, W |-> res.W]

Next ==
    \/ \E s \in Systems : initialise([name |-> "data"], s)
    \/ \E a \in AlgNames, k \in Orders, f \in Frequencies : run(a, k, f)

Spec == Init /\ [][Next]_vars

(***************************************************************************)
(* Properties                                                              *)
(***************************************************************************)
\* the algorithm names run tests for (lines 49, 52, 55, 58)
Recognised ==
    {"arnoldi", "two_sided_arnoldi", "dual_rational_arnoldi",
     "real_rational_arnoldi"}

\* the number of events of the operation op on a side for point p
Count(tr, op, side, p) ==
    Cardinality({i \in 1..Len(tr) :
        tr[i].op = op /\ tr[i].side = side /\ tr[i].pt = p})

\* C1: a run with an algorithm name outside the recognised set raises
\* NotImplementedError at once: it calls no reducer, performs no operation
\* of any reducer, and leaves the stored reduced model as it was.
C1_UnknownNameRejected ==
    [][(called' = "run" /\ self'.algorithm \notin Recognised)
        => /\ raised' = "NotImplementedError"
           /\ invoked' = ""
           /\ events' = << >>
           /\ built' = NoBases
           /\ self'.ssrom = self.ssrom]_vars

\* an unknown name was run on a driver that holds a reduced model
C1_Witness ==
    /\ called = "run"
    /\ self.algorithm \notin Recognised
    /\ raised = "NotImplementedError"
    /\ self.ss # None
    /\ self.ssrom # None

\* C2: as long as no system is attached (ss is None) the driver holds no
\* reduced model, and every run made in that state ended in an exception.
C2_NoModelBeforeAttach ==
    self.ss = None =>
        /\ self.ssrom = None
        /\ called = "run" => raised # ""

\* a reducer was called before a system was attached
C2_Witness ==
    /\ called = "run"
    /\ self.ss = None
    /\ invoked = "two_sided_arnoldi"
    /\ raised = "AttributeError"
    /\ self.ssrom = None

\* the reduced model of what a reducer returned for the system ss
ReducedBy(res, ss) == libss_ss(res.Ar, res.Br, res.Cr, ss.D, ss.dt)

\* C3: a run that returns stores, in place of whatever model was stored, the
\* model of the matrices its reducer returned for this call, with the D and
\* the dt of the attached system.
C3_SuccessfulRunReplaces ==
    [][(called' = "run" /\ raised' = "")
        => /\ self.ss # None
           /\ self'.ss = self.ss
           /\ self'.ssrom =
                ReducedBy(Lookup(self.ss, self'.algorithm, self'.frequency,
                                 self'.r), self.ss)
           /\ self'.ssrom.D = self.ss.D
           /\ self'.ssrom.dt = self.ss.dt]_vars

\* a run on the discrete-time system returned, and replaced a model that an
\* earlier dual_rational_arnoldi run had stored
C3_Witness ==
    /\ called = "run"
    /\ raised = ""
    /\ self.ss = SysB
    /\ self.ssrom.dt = Fin(1)
    /\ self.ssrom.D = Fin(1)
    /\ self.V # None
    /\ invoked = "one_sided_arnoldi"

\* C4: a run that raises leaves the stored reduced model exactly as it was,
\* and has made one attempt only: it factorised the operator of a point at
\* most once on the input side.
C4_FailedRunKeepsModel ==
    [][(called' = "run" /\ raised' # "")
        => /\ self'.ssrom = self.ssrom
           /\ \A p \in 0..1 : Count(events', "lu_factor", "b", p) <= 1]_vars

\* a run failed in the middle of its reducer, on a driver that holds a model
C4_Witness ==
    /\ called = "run"
    /\ raised = "ValueError"
    /\ events # << >>
    /\ self.ssrom # None

\* fewer than two distinct interpolation points
FewerThanTwoDistinct(frequency) ==
    \/ frequency = None
    \/ Cardinality({frequency.pts[i] : i \in 1..Len(frequency.pts)}) < 2

\* C5: dual_rational_arnoldi given fewer than two distinct interpolation
\* points is rejected by its assertion before any factorisation, solve or
\* store into a basis.
C5_FewPointsRejectedFirst ==
    (/\ called = "run"
     /\ invoked = "dual_rational_arnoldi_siso"
     /\ self.ss # None
     /\ FewerThanTwoDistinct(self.frequency))
        => (raised = "AssertionError" /\ events = << >>)

\* C6: each of the names 'one_sided_arnoldi', 'two_sided_arnoldi' and
\* 'dual_rational_arnoldi' makes run call its reducer, and none of them is
\* answered with the NotImplementedError of an unrecognised algorithm.
C6_SurfaceNamesDispatched ==
    /\ (called = "run" /\ self.algorithm = "one_sided_arnoldi")
            => (invoked = "one_sided_arnoldi" /\ raised # "NotImplementedError")
    /\ (called = "run" /\ self.algorithm = "two_sided_arnoldi")
            => (invoked = "two_sided_arnoldi" /\ raised # "NotImplementedError")
    /\ (called = "run" /\ self.algorithm = "dual_rational_arnoldi")
            => (invoked = "dual_rational_arnoldi_siso"
                /\ raised # "NotImplementedError")

\* the indices of the interpolation points the events of a call name
PointsOf(tr) == {tr[i].pt : i \in 1..Len(tr)}

\* C7: within one run the shifted operator of an interpolation point is
\* LU-factored once, for both sides together.
C7_FactoredOncePerPoint ==
    called = "run" =>
        \A p \in PointsOf(events) :
            Count(events, "lu_factor", "b", p)
                + Count(events, "lu_factor", "c", p) <= 1

\* C8: a run whose reducer returned projected with bases that hold no NaN
\* column: a zero norm met by construct_krylov ended the call in an
\* exception.
C8_NoDegenerateBasis ==
    (called = "run" /\ raised = "")
        => (~MatHasNaN(built.V) /\ ~MatHasNaN(built.W))

\* C9: a run asking for an order r above the state dimension n of the
\* attached system raises, and no stored reduced model has more states than
\* the attached system.
C9_OrderWithinDimension ==
    /\ (called = "run" /\ self.ss # None /\ self.r > Len(self.ss.A))
            => raised # ""
    /\ (self.ss # None /\ self.ssrom # None)
            => Len(self.ssrom.A) <= Len(self.ss.A)

\* the run of a configuration by a new driver to which ss was attached
FreshRun(ss, a, k, f) == do_run(do_initialise(new, None, ss), a, k, f)

\* C10: the reduced matrices a run stores are those a new driver, given the
\* same system, stores for the same algorithm, order and frequency: they do
\* not depend on earlier runs or on the fields these left in the driver.
C10_RunIsDeterministic ==
    [][(called' = "run" /\ raised' = "")
        => \E fresh \in {FreshRun(self.ss, self'.algorithm, self'.r,
                                  self'.frequency)} :
              /\ fresh.exc = ""
              /\ self'.ssrom.A = fresh.self.ssrom.A
              /\ self'.ssrom.B = fresh.self.ssrom.B
              /\ self'.ssrom.C = fresh.self.ssrom.C]_vars

\* a run returned on a driver in which an earlier run with the same
\* algorithm name but another order had stored a model, and an earlier
\* dual_rational_arnoldi run its bases
C10_Witness ==
    /\ called = "run"
    /\ raised = ""
    /\ invoked = "one_sided_arnoldi"
    /\ self.V # None
    /\ self.r = 2
    /\ self.frequency = Scalar(1)
    /\ self.ss = SysA

\* the reducers that project obliquely, with two bases
TwoBases == {"two_sided_arnoldi", "dual_rational_arnoldi_siso"}

\* the number of columns the bases of a returning call have: r, and
\* r * nfreq for dual_rational_arnoldi_siso
WidthOf(reducer, frequency, r) ==
    IF reducer = "dual_rational_arnoldi_siso" THEN r * nfreq_of(frequency)
    ELSE r

\* C11: when two_sided_arnoldi or dual_rational_arnoldi_siso returns, the
\* corrected W it projected with and its V satisfy W^T V = I, the identity
\* of size r (r * nfreq for the dual reducer); the reducer returns only
\* when the uncorrected W^T V was invertible.
C11_Biorthogonal ==
    (called = "run" /\ raised = "" /\ invoked \in TwoBases)
        => /\ NCols(built.V) = WidthOf(invoked, self.frequency, self.r)
           /\ NCols(built.W) = WidthOf(invoked, self.frequency, self.r)
           /\ MatMul(Transpose(built.W), built.V)
                = Eye(WidthOf(invoked, self.frequency, self.r))

\* dual_rational_arnoldi_siso returned for two points with bases of two
\* columns, the corrected W differing from V
C11_Witness ==
    /\ called = "run"
    /\ raised = ""
    /\ invoked = "dual_rational_arnoldi_siso"
    /\ self.r = 1
    /\ NCols(built.V) = 2
    /\ built.W # built.V

\* two_sided_arnoldi returned in partial-realisation mode
C11_WitnessTwoSided ==
    /\ called = "run"
    /\ raised = ""
    /\ invoked = "two_sided_arnoldi"
    /\ self.frequency = None
    /\ built.W # built.V

\* the events of a call that apply the operator on a side: a solve against
\* the factorisation, or a product with the matrix
Applications(tr, side) ==
    {i \in 1..Len(tr) : tr[i].side = side /\ tr[i].op \in {"lu_solve", "dot"}}

\* C12: on the output side (side 'c') every application of the operator is
\* its transpose action: every solve against the factorisation is a
\* transposed solve, and every product is with the transposed matrix.
C12_OutputSideTransposed ==
    called = "run" =>
        \A i \in Applications(events, "c") : events[i].trans = 1

\* a frequency argument that is a sequence of two or more points, with a
\* shape (a numpy array) or without one (a Python list)
SequenceOfPoints(frequency) ==
    /\ frequency # None
    /\ frequency.kind \in {"ndarray", "list"}
    /\ Len(frequency.pts) >= 2

\* the stores a call made into the basis of a side for point p
Stores(tr, side, p) ==
    {i \in 1..Len(tr) :
        tr[i].op = "store" /\ tr[i].side = side /\ tr[i].pt = p}

\* every store of a call with per-point order r writes the column range
\* [p * r, (p + 1) * r) of its point p, once for each side
BlocksConfined(tr, r) ==
    \A i \in 1..Len(tr) :
        tr[i].op = "store" =>
            /\ tr[i].lo = tr[i].pt * r
            /\ tr[i].hi = (tr[i].pt + 1) * r
            /\ Stores(tr, tr[i].side, tr[i].pt) = {i}

\* the stores of a call cover the blocks of all n points on both sides
BlocksComplete(tr, n) ==
    \A p \in 0..(n - 1) :
        Stores(tr, "b", p) # {} /\ Stores(tr, "c", p) # {}

\* the bases of a dual_rational_arnoldi_siso call are written block by
\* block: each store is confined to the columns of its point, and a call
\* that returns has written each of the r * nfreq columns of V and W once
DualBlocksDisjoint ==
    (called = "run" /\ invoked = "dual_rational_arnoldi_siso")
        => /\ BlocksConfined(events, self.r)
           /\ raised = "" =>
                /\ BlocksComplete(events, Len(self.frequency.pts))
                /\ NCols(built.V) = self.r * Len(self.frequency.pts)
                /\ NCols(built.W) = self.r * Len(self.frequency.pts)

\* C13: dual_rational_arnoldi given a sequence of two or more points, with
\* or without a shape attribute, is not rejected by the check of the point
\* count, and it writes V and W block by block: point i writes the columns
\* [i * r, (i + 1) * r) only, and a returning call has written each of the
\* r * nfreq columns once.
C13_SequenceAcceptedInBlocks ==
    /\ (/\ called = "run"
        /\ invoked = "dual_rational_arnoldi_siso"
        /\ self.ss # None
        /\ SequenceOfPoints(self.frequency))
            => raised # "AssertionError"
    /\ DualBlocksDisjoint

\* dual_rational_arnoldi_siso wrote two blocks of two columns on each side
\* for an array of two points (W^T V, of four columns and rank two, has no
\* inverse then)
DualBlocksWitness ==
    /\ called = "run"
    /\ raised = "LinAlgError"
    /\ invoked = "dual_rational_arnoldi_siso"
    /\ self.r = 2
    /\ BlocksComplete(events, 2)
    /\ \E i \in 1..Len(events) : events[i] = Store("c", 1, 2, 4)

\* the driver obj holds what a returning run with the arguments recorded
\* in its fields algorithm, r and frequency leaves for the system ss: the
\* stored model is the one of that run, and self.V and self.W, where they
\* are set, are the bases that run projected with
ProducedOn(obj, ss) ==
    \E res \in {Lookup(ss, obj.algorithm, obj.frequency, obj.r)} :
        /\ res.exc = ""
        /\ obj.ssrom = ReducedBy(res, ss)
        /\ obj.V # None => obj.V = ndarray(res.V)
        /\ obj.W # None => obj.W = ndarray(res.W)

\* the stored model is the one a returning run with the recorded arguments
\* produces for some system
FieldsDescribeModel(obj) ==
    \E i \in 1..Len(SystemSeq) :
        \E res \in {Lookup(SystemSeq[i], obj.algorithm, obj.frequency,
                            obj.r)} :
            res.exc = "" /\ obj.ssrom = ReducedBy(res, SystemSeq[i])

\* C14: whenever a reduced model is stored, the fields algorithm, r and
\* frequency are the arguments of the run that produced it, and the stored
\* bases V and W, when present, are the bases it was projected with: the
\* driver holds what a returning run with the recorded arguments leaves for
\* one of the systems.
C14_FieldsDescribeStoredModel ==
    self.ssrom # None =>
        \E i \in 1..Len(SystemSeq) : ProducedOn(self, SystemSeq[i])

\* a failed run has overwritten the arguments recorded with a stored model
StaleArguments ==
    /\ called = "run"
    /\ raised # ""
    /\ self.ssrom # None
    /\ ~FieldsDescribeModel(self)

\* a returning one-sided run has stored its model next to the bases an
\* earlier dual_rational_arnoldi run left in self.V and self.W
StaleBases ==
    /\ called = "run"
    /\ raised = ""
    /\ invoked = "one_sided_arnoldi"
    /\ FieldsDescribeModel(self)
    /\ self.V # None
    /\ self.V # ndarray(built.V)

====
